---- MODULE Spec2Model ----
(***************************************************************************)
(* hanatane-ogp-generator: the OGP card editor.                            *)
(*                                                                         *)
(*   App          holds the configuration (useState) and hands it to       *)
(*   OgpForm      whose change handlers replace it, and to                 *)
(*   OgpPreview   which renders the card and exports it as a PNG           *)
(*                (handleDownload, html-to-image toPng).                   *)
(*                                                                         *)
(* The sources hold three OgpPreview components: unnamed/part_001 (hidden  *)
(* rasterization element, per-line BudouX title), src/types/ogp.ts lines   *)
(* 99-254 (previewRef on the scaled preview element, single-line BudouX    *)
(* title) and unnamed/part_002 (previewRef on the scaled preview element,  *)
(* plain text title).  `component` says which one is mounted.              *)
(*                                                                         *)
(* Two specifications:                                                     *)
(*   Spec / FairSpec  the editor as a state machine (form edits, icon file *)
(*                    reads, exports, the clock);                          *)
(*   SegSpec          the title formatting as a pure function of the title *)
(*                    and of the phrase boundaries BudouX reports.         *)
(***************************************************************************)
EXTENDS Integers, Sequences, FiniteSets, TLC

VARIABLES
    component,      \* which OgpPreview component is mounted
    config,         \* App: const [config, setConfig] = useState<OgpConfig>(...)
    isDownloading,  \* OgpPreview: const [isDownloading, setIsDownloading] = useState(false)
    jobs,           \* toPng promises that have not settled yet, one per handleDownload past its await
    nextId,         \* number of handleDownload invocations that got past the previewRef guard
    files,          \* downloads delivered (link.click()), oldest first
    alerts,         \* alert(...) dialogs shown, oldest first (the export each belongs to)
    finished,       \* exports whose handleDownload has run its finally block
    clicks,         \* the clicks on the download button so far, oldest first
    reads,          \* FileReader reads in progress (handleFileChange), with the closure of onload
    picked,         \* number of icon files picked so far
    edits,          \* number of field edits handled so far
    now,            \* Date.now()
    budoux,         \* the phrase boundaries the BudouX model reports (positions in the title)
    segTitle,       \* SegSpec: the title being formatted
    segOut          \* SegSpec: the outcome of formatting and rendering it

vars == <<component, config, isDownloading, jobs, nextId, files, alerts, finished,
          clicks, reads, picked, edits, now, budoux, segTitle, segOut>>

uiVars == <<component, config, isDownloading, jobs, nextId, files, alerts, finished,
            clicks, reads, picked, edits, now>>

-----------------------------------------------------------------------------
(* Bounds of the model.                                                    *)

\* longest title SegSpec formats, in characters
MaxLen == 3
\* user events (clicks on the download button, field edits, icon files picked) per run
MaxEvents == 3
\* last value of the millisecond clock
MaxClock == 1

-----------------------------------------------------------------------------
(* Characters.  A title is a sequence of characters; "NL" is the line      *)
(* break "\n", "<" and ">" are the HTML markup delimiters, "a" stands for  *)
(* any letter and "br" for the letters b, r typed one after the other.     *)
(* The markup the code writes is spelled in the same characters plus "/"   *)
(* and the tag names, each tag name one unit.                              *)

NL == "NL"

TitleChars == {"a", "br", "<", ">", NL}

TagNames == {"span", "wbr", "br", "a"}

RECURSIVE SeqsUpTo(_, _)
SeqsUpTo(S, n) ==
    IF n = 0 THEN {<<>>}
    ELSE LET shorter == SeqsUpTo(S, n - 1)
         IN  shorter \cup {Append(s, c) : s \in {t \in shorter : Len(t) = n - 1}, c \in S}

\* Array.prototype.join: the elements of ss with sep between neighbours
RECURSIVE Join(_, _)
Join(ss, sep) ==
    IF ss = <<>> THEN <<>>
    ELSE IF Len(ss) = 1 THEN ss[1]
    ELSE ss[1] \o sep \o Join(Tail(ss), sep)

-----------------------------------------------------------------------------
(* The title formatting of OgpPreview (formattedTitle) and what the        *)
(* browser makes of it.                                                    *)

\* the three OgpPreview components of the sources
Components == {"part_001", "types_ogp", "part_002"}

\* "記事タイトル", the fallback of an empty title: two characters of the model
TitlePlaceholder == <<"kiji", "taitoru">>

\* config.articleTitle || "記事タイトル"
TitleOrPlaceholder(articleTitle) ==
    IF articleTitle = <<>> THEN TitlePlaceholder ELSE articleTitle

\* the markup formattedTitle writes
SpanOpen == <<"<", "span", ">">>
SpanClose == <<"<", "/", "span", ">">>
Wbr == <<"<", "wbr", ">">>
Br == <<"<", "br", ">">>

\* title.split("\n"): the lines of s, each with the number of characters
\* of s before it.  "".split("\n") is [""], one empty line.
RECURSIVE SplitFrom(_, _, _)
SplitFrom(s, i, start) ==
    IF i > Len(s)
        THEN <<[text |-> SubSeq(s, start + 1, Len(s)), start |-> start]>>
    ELSE IF s[i] = NL
        THEN <<[text |-> SubSeq(s, start + 1, i - 1), start |-> start]>>
             \o SplitFrom(s, i + 1, i)
    ELSE SplitFrom(s, i + 1, start)

Split(s) == SplitFrom(s, 1, 0)

\* budoux Parser.parse(sentence): [] for the empty sentence, otherwise the
\* sentence cut at the boundaries the model reports.  bs are the positions
\* p (1 <= p < Len) after which a boundary lies.
RECURSIVE ChunksFrom(_, _, _, _)
ChunksFrom(sentence, bs, from, i) ==
    IF i = Len(sentence)
        THEN <<SubSeq(sentence, from, i)>>
    ELSE IF i \in bs
        THEN <<SubSeq(sentence, from, i)>> \o ChunksFrom(sentence, bs, i + 1, i + 1)
    ELSE ChunksFrom(sentence, bs, from, i + 1)

Parse(sentence, bs) ==
    IF sentence = <<>> THEN <<>> ELSE ChunksFrom(sentence, bs, 1, 1)

\* the boundaries of the model that fall inside a sentence starting after
\* `start` characters of the title
BoundariesIn(model, start, sentence) ==
    {p - start : p \in {q \in model : start < q /\ q < start + Len(sentence)}}

\* chunks.map((chunk) => `<span style="display:inline-block">${chunk}</span>`).join("<wbr>")
SpansOf(chunks) ==
    Join([k \in 1..Len(chunks) |-> SpanOpen \o chunks[k] \o SpanClose], Wbr)

\* part_001, formattedTitle: split on "\n", parse each line, join with <br>
formattedTitle(articleTitle, model) ==
    LET title == TitleOrPlaceholder(articleTitle)
        lines == Split(title)
    IN  Join([i \in 1..Len(lines) |->
                SpansOf(Parse(lines[i].text,
                              BoundariesIn(model, lines[i].start, lines[i].text)))],
             Br)

\* src/types/ogp.ts, formattedTitle: the whole title is parsed as one sentence
formattedTitleSingle(articleTitle, model) ==
    LET title == TitleOrPlaceholder(articleTitle)
    IN  SpansOf(Parse(title, BoundariesIn(model, 0, title)))

\* What the browser's HTML parser reads in a string set as innerHTML
\* (dangerouslySetInnerHTML): "<" followed by a tag name opens a tag that
\* runs to the next ">", "</" followed by a tag name a closing tag; every
\* other character is text.  A tag that is never closed swallows the rest.
FirstGt(html, from) ==
    LET at == {j \in from..Len(html) : html[j] = ">"}
    IN  IF at = {} THEN 0 ELSE CHOOSE j \in at : \A k \in at : j <= k

RECURSIVE Tokenize(_)
Tokenize(html) ==
    IF html = <<>> THEN <<>>
    ELSE IF html[1] = "<" /\ Len(html) >= 2 /\ html[2] \in TagNames
        THEN LET j == FirstGt(html, 3)
             IN  IF j = 0 THEN <<>>
                 ELSE <<[kind |-> "open", name |-> html[2]]>>
                      \o Tokenize(SubSeq(html, j + 1, Len(html)))
    ELSE IF html[1] = "<" /\ Len(html) >= 3 /\ html[2] = "/" /\ html[3] \in TagNames
        THEN LET j == FirstGt(html, 4)
             IN  IF j = 0 THEN <<>>
                 ELSE <<[kind |-> "close", name |-> html[3]]>>
                      \o Tokenize(SubSeq(html, j + 1, Len(html)))
    ELSE <<[kind |-> "text", name |-> html[1]]>> \o Tokenize(Tail(html))

\* a React text child ({config.articleTitle || "記事タイトル"}): text only
TextNodes(s) == [i \in 1..Len(s) |-> [kind |-> "text", name |-> s[i]]]

\* the string the component sets as innerHTML of the title's <h1>
\* (part_002 sets none: it renders the title as a text child)
TitleHtml(comp, articleTitle, model) ==
    IF comp = "part_001" THEN formattedTitle(articleTitle, model)
    ELSE IF comp = "types_ogp" THEN formattedTitleSingle(articleTitle, model)
    ELSE <<>>

\* the content of the title's <h1>, per component
TitleDom(comp, articleTitle, model) ==
    IF comp = "part_002" THEN TextNodes(TitleOrPlaceholder(articleTitle))
    ELSE Tokenize(TitleHtml(comp, articleTitle, model))

\* the phrase chunks of each line of the title, as part_001 computes them
\* (lines.map((line) => parser.parse(line)))
LineChunks(articleTitle, model) ==
    LET lines == Split(TitleOrPlaceholder(articleTitle))
    IN  [i \in 1..Len(lines) |->
            Parse(lines[i].text, BoundariesIn(model, lines[i].start, lines[i].text))]

\* the text of the <h1> as laid out: its characters, a <br> read as a line break
RECURSIVE DomText(_)
DomText(dom) ==
    IF dom = <<>> THEN <<>>
    ELSE LET t == Head(dom)
         IN  (IF t.kind = "text" THEN <<t.name>>
              ELSE IF t.kind = "open" /\ t.name = "br" THEN <<NL>>
              ELSE <<>>) \o DomText(Tail(dom))

\* the texts of the <span> elements of the <h1>, in order (its segments)
RECURSIVE SegmentsFrom(_, _, _)
SegmentsFrom(dom, inSpan, cur) ==
    IF dom = <<>> THEN (IF inSpan THEN <<cur>> ELSE <<>>)
    ELSE LET t == Head(dom)
         IN  IF t.kind = "open" /\ t.name = "span" /\ ~inSpan
                 THEN SegmentsFrom(Tail(dom), TRUE, <<>>)
             ELSE IF t.kind = "close" /\ t.name = "span" /\ inSpan
                 THEN <<cur>> \o SegmentsFrom(Tail(dom), FALSE, <<>>)
             ELSE IF t.kind = "text" /\ inSpan
                 THEN SegmentsFrom(Tail(dom), TRUE, Append(cur, t.name))
             ELSE SegmentsFrom(Tail(dom), inSpan, cur)

Segments(dom) == SegmentsFrom(dom, FALSE, <<>>)

\* the number of forced breaks (<br> elements) of the <h1>
RECURSIVE CountBr(_)
CountBr(dom) ==
    IF dom = <<>> THEN 0
    ELSE (IF Head(dom).kind = "open" /\ Head(dom).name = "br" THEN 1 ELSE 0)
         + CountBr(Tail(dom))


-----------------------------------------------------------------------------
(* The preset registry (src/types/ogp.ts) and the configuration.           *)

SizeKeys == {"standard", "wide"}

\* OGP_SIZE_PRESETS: Record<OgpSizePreset, OgpSize> (labels left out)
OGP_SIZE_PRESETS ==
    [k \in SizeKeys |->
        IF k = "standard"
            THEN [preset |-> "standard", width |-> 1200, height |-> 630]
            ELSE [preset |-> "wide", width |-> 1200, height |-> 675]]

\* a lookup that ignores the selected size
getOgpSizeStandard(cfg) ==
    [width |-> OGP_SIZE_PRESETS["standard"].width,
     height |-> OGP_SIZE_PRESETS["standard"].height]

\* getOgpSize(config)
getOgpSize(cfg) ==
    LET preset == OGP_SIZE_PRESETS[cfg.selectedSize]
    IN  [width |-> preset.width, height |-> preset.height]

\* the keys of the theme catalog: "purple" (App's initial theme) and one more
ThemeKeys == {"purple", "other"}

\* GRADIENT_PRESETS: Record<GradientPreset, ...>, imported from "@/types/ogp"
GRADIENT_PRESETS ==
    [k \in ThemeKeys |-> [preset |-> k, baseGradient |-> <<"base", k>>]]

DefaultIcon == "/default_icon512.png"

\* the data URL FileReader.readAsDataURL produces for the file the user picked
DataUrls == {"data:image"}

\* App: the initial state of useState<OgpConfig>
InitialConfig ==
    [siteName |-> "hanashinotane",
     articleTitle |-> <<"a", "a">>,
     authorName |-> "tanenobu",
     authorIconUrl |-> DefaultIcon,
     selectedSize |-> "standard",
     gradientColor |-> "purple"]

\* what the user types into the text inputs, and into the title textarea
TextInputs == {"", "x"}

TitleInputs == {<<>>, <<"a", NL, "a">>, <<"a", "<", "a">>}

-----------------------------------------------------------------------------
(* OgpPreview: what it renders.                                            *)

\* pixelRatio of the toPng call
PixelRatio(comp) == IF comp = "part_001" THEN 1 ELSE 2

maxPreviewWidth == 600

\* const scale = Math.min(maxPreviewWidth / width, 1), as a fraction
PreviewScale(width) ==
    IF maxPreviewWidth < width THEN <<maxPreviewWidth, width>> ELSE <<1, 1>>

\* renderOgpContent(): the card
renderOgpContent(comp, cfg, model) ==
    [theme |-> IF comp = "part_001" THEN GRADIENT_PRESETS[cfg.gradientColor].preset
               ELSE "fixed",
     title |-> TitleDom(comp, cfg.articleTitle, model),
     icon |-> IF cfg.authorIconUrl = "" THEN DefaultIcon ELSE cfg.authorIconUrl,
     authorName |-> IF cfg.authorName = "" THEN "chosha-mei" ELSE cfg.authorName,
     siteName |-> IF cfg.siteName = "" THEN "saito-mei" ELSE cfg.siteName]

\* the element previewRef is attached to.  part_001 attaches it to a hidden
\* element without transform; the other two components attach it to the
\* preview element, which carries transform: scale(scale).
PreviewRefCurrent(comp, cfg, model) ==
    LET size == getOgpSize(cfg)
    IN  [element |-> IF comp = "part_001" THEN "hidden" ELSE "preview",
         scale |-> IF comp = "part_001" THEN <<1, 1>> ELSE PreviewScale(size.width),
         width |-> size.width,
         height |-> size.height,
         content |-> renderOgpContent(comp, cfg, model)]

\* previewRef.current, once the component is mounted (element "null": no element)
previewRef == PreviewRefCurrent(component, config, budoux)

\* the button without its disabled attribute
ButtonNeverDisabled == FALSE

\* <button onClick={handleDownload} disabled={isDownloading}>
ButtonDisabled == isDownloading

-----------------------------------------------------------------------------
(* OgpPreview: handleDownload.                                             *)

InFlight == {j.id : j \in jobs}

\* the user events handled so far
Events == Len(clicks) + edits + picked

\* toPng(previewRef.current, {width, height, pixelRatio}).  html-to-image
\* first clones the node it is given, then resolves the images of the
\* clone and draws it: the promise carries the clone.
toPng(id, node, width, height, pixelRatio) ==
    [id |-> id, node |-> node, width |-> width, height |-> height,
     pixelRatio |-> pixelRatio, of |-> config, calledAt |-> now]
\* (`of` is the configuration at the call and `calledAt` the clock at the
\* call, `at` and `deliveredAt` below the configuration and the clock at the
\* delivery: kept for the record only)

\* a rasterizer that draws the element as it is when the promise settles
RasterizedNodeLive(j) == previewRef

\* the node the settled promise has drawn
RasterizedNode(j) == j.node

\* what happens to an export after its await: all goes well, the icon URL
\* cannot be fetched, the drawing fails, or the delivery of the file throws
Fates == {"ok", "iconFails", "renderFails", "deliveryFails"}

\* how the promise settles.  No imagePlaceholder and no onImageErrorHandler
\* is passed, so an <img> whose URL cannot be fetched rejects the promise;
\* a data URL is not fetched.
Settlement(j, fate) ==
    IF fate = "renderFails" THEN "rejected"
    ELSE IF fate = "iconFails" /\ RasterizedNode(j).content.icon \notin DataUrls
        THEN "rejected"
    ELSE "resolved"

\* a name built from a clock value read before the await
FileNameAtCall(j) == <<"ogp-", j.calledAt, ".png">>

\* a name without the clock value
FileNameFixed(j) == <<"ogp-", ".png">>

\* link.download = `ogp-${Date.now()}.png`, evaluated after the await
FileName(j) == <<"ogp-", now, ".png">>

\* the PNG of a resolved promise, delivered by link.click()
Download(j, fate) ==
    LET node == RasterizedNode(j)
    IN  [id |-> j.id,
         name |-> FileName(j),
         calledAt |-> j.calledAt,
         deliveredAt |-> now,
         width |-> j.width * j.pixelRatio,
         height |-> j.height * j.pixelRatio,
         element |-> node.element,
         scale |-> node.scale,
         content |-> [node.content EXCEPT !.icon = IF fate = "iconFails" THEN "blank" ELSE @],
         of |-> j.of,
         at |-> config]

\* a handler that does not raise the flag: it is left as it is
NoSetIsDownloading == isDownloading

\* setIsDownloading(true), after the previewRef guard and before the try block
IsDownloadingAfterStart == TRUE

\* a click on the enabled button: handleDownload up to its await
HandleDownload ==
    /\ Events < MaxEvents
    /\ ~ButtonDisabled
    /\ clicks' = Append(clicks, [accepted |-> TRUE, during |-> InFlight])
    /\ IF previewRef.element = "null"
          THEN UNCHANGED <<isDownloading, jobs, nextId>>
          ELSE /\ isDownloading' = IsDownloadingAfterStart
               /\ LET size == getOgpSize(config)
                  IN  jobs' = jobs \cup {toPng(nextId + 1, previewRef, size.width,
                                               size.height, PixelRatio(component))}
               /\ nextId' = nextId + 1
    /\ UNCHANGED <<component, config, files, alerts, finished, reads, picked, edits, now,
                   budoux, segTitle, segOut>>

\* a click on the disabled button: the browser dispatches no click event
ClickDisabled ==
    /\ Events < MaxEvents
    /\ ButtonDisabled
    /\ clicks' = Append(clicks, [accepted |-> FALSE, during |-> InFlight])
    /\ UNCHANGED <<component, config, isDownloading, jobs, nextId, files, alerts,
                   finished, reads, picked, edits, now, budoux, segTitle, segOut>>

\* link.click() moved out of the try block: the link is clicked whatever happened
ClicksAnyway(outcome, fate) == TRUE

\* whether the try block gets as far as link.click(): the await has not
\* thrown, and neither have the lines that build the link
ReachesClick(outcome, fate) == outcome = "resolved" /\ fate # "deliveryFails"

\* a handler without the finally block: the flag is left as it is
NoFinally == isDownloading

\* finally { setIsDownloading(false) }
IsDownloadingAfterFinally == FALSE

\* handleDownload from its await on: try / catch / finally
Resume(j, fate) ==
    LET outcome == Settlement(j, fate)
    IN  /\ jobs' = jobs \ {j}
        /\ IF ReachesClick(outcome, fate)
              THEN /\ files' = Append(files, Download(j, fate))
                   /\ UNCHANGED alerts
              ELSE /\ alerts' = Append(alerts, j.id)
                   /\ UNCHANGED files
        /\ isDownloading' = IsDownloadingAfterFinally
        /\ finished' = finished \cup {[id |-> j.id, fate |-> fate, toPng |-> outcome]}
        /\ UNCHANGED <<component, config, nextId, clicks, reads, picked, edits, now,
                       budoux, segTitle, segOut>>

ToPngSettles == \E j \in jobs : \E fate \in Fates : Resume(j, fate)

-----------------------------------------------------------------------------
(* OgpForm: the change handlers.  Each calls onChange = setConfig with a   *)
(* copy of the config prop of its render.                                  *)

FormUnchanged ==
    UNCHANGED <<component, isDownloading, jobs, nextId, files, alerts, finished,
                clicks, now, budoux, segTitle, segOut>>

\* handleTextChange(field): onChange({ ...config, [field]: e.target.value })
HandleTextChange ==
    /\ Events < MaxEvents
    /\ \/ \E v \in TextInputs : config' = [config EXCEPT !.siteName = v]
       \/ \E v \in TitleInputs : config' = [config EXCEPT !.articleTitle = v]
       \/ \E v \in TextInputs : config' = [config EXCEPT !.authorName = v]
    /\ edits' = edits + 1
    /\ UNCHANGED <<reads, picked>>
    /\ FormUnchanged

\* options that carry their label as value
SizeOptionLabels == {<<"label", k>> : k \in SizeKeys}

\* the values of the <option> elements of the size <select>
\* (<option key={key} value={preset.preset}>)
SizeOptionValues == {OGP_SIZE_PRESETS[k].preset : k \in SizeKeys}

\* handleSizeChange: onChange({ ...config, selectedSize })
HandleSizeChange ==
    /\ Events < MaxEvents
    /\ \E selectedSize \in SizeOptionValues :
          config' = [config EXCEPT !.selectedSize = selectedSize]
    /\ edits' = edits + 1
    /\ UNCHANGED <<reads, picked>>
    /\ FormUnchanged

\* handleGradientChange: onChange({ ...config, gradientColor: preset })
HandleGradientChange ==
    /\ Events < MaxEvents
    /\ \E k \in ThemeKeys :
          config' = [config EXCEPT !.gradientColor = GRADIENT_PRESETS[k].preset]
    /\ edits' = edits + 1
    /\ UNCHANGED <<reads, picked>>
    /\ FormUnchanged

\* handleFileChange: reader.readAsDataURL(file), onload keeps the config of
\* the render the handler belongs to
HandleFileChange ==
    /\ Events < MaxEvents
    /\ \E dataUrl \in DataUrls :
          reads' = reads \cup {[config |-> config, dataUrl |-> dataUrl]}
    /\ picked' = picked + 1
    /\ UNCHANGED <<config, edits>>
    /\ FormUnchanged

\* reader.onload: onChange({ ...config, authorIconUrl: dataUrl })
ReaderOnload ==
    /\ \E r \in reads :
          /\ config' = [r.config EXCEPT !.authorIconUrl = r.dataUrl]
          /\ reads' = reads \ {r}
    /\ UNCHANGED <<picked, edits>>
    /\ FormUnchanged

\* the millisecond clock advances
Tick ==
    /\ now < MaxClock
    /\ now' = now + 1
    /\ UNCHANGED <<component, config, isDownloading, jobs, nextId, files, alerts,
                   finished, clicks, reads, picked, edits, budoux, segTitle, segOut>>

-----------------------------------------------------------------------------
(* The editor.                                                             *)

Init ==
    /\ component \in Components
    /\ config = InitialConfig
    /\ isDownloading = FALSE
    /\ jobs = {}
    /\ nextId = 0
    /\ files = <<>>
    /\ alerts = <<>>
    /\ finished = {}
    /\ clicks = <<>>
    /\ reads = {}
    /\ picked = 0
    /\ edits = 0
    /\ now = 0
    /\ budoux = {1}
    /\ segTitle = <<>>
    /\ segOut = [stage |-> "idle", html |-> <<>>, chunks |-> <<>>, dom |-> <<>>]

Next ==
    \/ HandleDownload
    \/ ClickDisabled
    \/ ToPngSettles
    \/ HandleTextChange
    \/ HandleSizeChange
    \/ HandleGradientChange
    \/ HandleFileChange
    \/ ReaderOnload
    \/ Tick

Spec == Init /\ [][Next]_vars

\* the toPng promise eventually settles
FairSpec == Spec /\ WF_vars(ToPngSettles)


-----------------------------------------------------------------------------
(* The title formatting on its own: every title up to MaxLen characters,   *)
(* every set of phrase boundaries, every component.                        *)

\* useMemo(() => ..., [config.articleTitle]): the title is formatted
FormatTitle ==
    /\ segOut.stage = "idle"
    /\ segOut' = [stage |-> "formatted",
                  html |-> TitleHtml(component, segTitle, budoux),
                  chunks |-> LineChunks(segTitle, budoux),
                  dom |-> <<>>]
    /\ UNCHANGED <<segTitle, budoux>>
    /\ UNCHANGED uiVars

\* dangerouslySetInnerHTML={{ __html: formattedTitle }}: the browser parses it
\* (part_002: the title is a text child)
RenderTitle ==
    /\ segOut.stage = "formatted"
    /\ segOut' = [segOut EXCEPT !.stage = "rendered",
                                !.dom = IF component = "part_002"
                                            THEN TextNodes(TitleOrPlaceholder(segTitle))
                                            ELSE Tokenize(segOut.html)]
    /\ UNCHANGED <<segTitle, budoux>>
    /\ UNCHANGED uiVars

SegInit ==
    /\ component \in Components
    /\ config = InitialConfig
    /\ isDownloading = FALSE
    /\ jobs = {}
    /\ nextId = 0
    /\ files = <<>>
    /\ alerts = <<>>
    /\ finished = {}
    /\ clicks = <<>>
    /\ reads = {}
    /\ picked = 0
    /\ edits = 0
    /\ now = 0
    /\ budoux \in SUBSET (1..(MaxLen - 1))
    /\ segTitle \in SeqsUpTo(TitleChars, MaxLen)
    /\ segOut = [stage |-> "idle", html |-> <<>>, chunks |-> <<>>, dom |-> <<>>]

SegNext == FormatTitle \/ RenderTitle

SegSpec == SegInit /\ [][SegNext]_vars


-----------------------------------------------------------------------------
(* Properties.                                                             *)

Range(seq) == {seq[i] : i \in 1..Len(seq)}

AlertsOf(id) == Cardinality({i \in 1..Len(alerts) : alerts[i] = id})

FilesOf(id) == Cardinality({i \in 1..Len(files) : files[i].id = id})

\* C1: at most one export is in flight in every reachable state, and no click
\* made while an export is in flight starts another one: such a click is not
\* accepted (the button is disabled), so every accepted click found nothing
\* in flight, and every export that has finished has had exactly one outcome
\* (one file or one alert).
C1_AtMostOneInFlight ==
    /\ Cardinality(jobs) <= 1
    /\ \A f \in finished : FilesOf(f.id) + AlertsOf(f.id) = 1
    /\ \A i \in 1..Len(clicks) : clicks[i].during # {} => ~clicks[i].accepted
    /\ nextId = Cardinality({i \in 1..Len(clicks) : clicks[i].accepted})

\* a click was made while an export was in flight, and that export is still running
C1_Witness ==
    /\ jobs # {}
    /\ \E i \in 1..Len(clicks) : clicks[i].during # {}

\* the run of the scenario: two clicks, the second while the export of the
\* first was in flight, and nothing in flight any more
TwoClicksRun ==
    /\ Len(clicks) = 2
    /\ clicks[2].during # {}
    /\ jobs = {}

\* C2 as stated: in the run of two clicks, the second before the first export
\* completes, exactly one file is delivered.
C2_ExactlyOneFile == TwoClicksRun => Len(files) = 1

\* C2 amended: in the run of two clicks, the second before the first export
\* completes, never more than one file is delivered; one file is delivered
\* when the first export's toPng resolves and the delivery does not throw,
\* and none when it fails.
C2_AtMostOneFile ==
    /\ (Len(clicks) = 2 /\ clicks[2].during # {}) => Len(files) <= 1
    /\ TwoClicksRun =>
          \E f \in finished :
             /\ f.id = 1
             /\ Len(files) = (IF f.toPng = "resolved" /\ f.fate # "deliveryFails"
                                 THEN 1 ELSE 0)

\* the scenario has run and the first export has delivered its file
C2_Witness == TwoClicksRun /\ Len(files) = 1

\* C3: every export that sets isDownloading eventually sets it back to false
\* (the toPng promise settling), whether toPng resolves, rejects or the
\* delivery throws; and isDownloading is never true with no export in flight.
C3_ReturnsToIdle ==
    /\ [](isDownloading => jobs # {})
    /\ (isDownloading ~> ~isDownloading)

\* an export has failed and the controller is idle again
C3_Witness ==
    /\ ~isDownloading
    /\ \E f \in finished : f.toPng = "rejected"
    /\ \E f \in finished : f.fate = "deliveryFails"

\* C4: an export whose toPng rejects shows exactly one alert and delivers no
\* file; every delivered file belongs to an export whose toPng resolved.
C4_FailureSurfacedOnce ==
    /\ \A f \in finished :
          f.toPng = "rejected" => AlertsOf(f.id) = 1 /\ FilesOf(f.id) = 0
    /\ \A i \in 1..Len(files) :
          \E f \in finished : f.id = files[i].id /\ f.toPng = "resolved"

\* an export has failed in its rasterization
C4_Witness == \E f \in finished : f.toPng = "rejected"

\* C5 as stated: every export is drawn at the selected preset's width and
\* height times the pixel ratio, and the element handed to toPng is never the
\* preview element, which carries the shrink-to-fit transform.
C5_NeverThePreviewElement ==
    /\ \A j \in jobs :
          /\ j.node.element # "preview"
          /\ j.width = OGP_SIZE_PRESETS[j.of.selectedSize].width
          /\ j.height = OGP_SIZE_PRESETS[j.of.selectedSize].height
    /\ \A i \in 1..Len(files) :
          /\ files[i].element # "preview"
          /\ files[i].width
                = OGP_SIZE_PRESETS[files[i].of.selectedSize].width * PixelRatio(component)
          /\ files[i].height
                = OGP_SIZE_PRESETS[files[i].of.selectedSize].height * PixelRatio(component)

C7_IconFailureTolerated ==
    \A f \in finished :
        f.fate = "iconFails" => FilesOf(f.id) = 1 /\ AlertsOf(f.id) = 0

\* C8 as stated, for the titles that are segmented as entered (an empty title
\* is replaced by the placeholder first): the text of the segments of the
\* rendered title, with the line breaks put back, is the title.
C8_RoundTrip ==
    (segOut.stage = "rendered" /\ component # "part_002" /\ segTitle # <<>>)
        => DomText(segOut.dom) = segTitle

\* C9 as stated, for the lines of a title that is not empty: an empty line
\* yields exactly one segment, with empty text.
C9_EmptyLineOneSegment ==
    (segOut.stage # "idle" /\ component = "part_001" /\ segTitle # <<>>)
        => \A i \in 1..Len(segOut.chunks) :
              Split(segTitle)[i].text = <<>> => segOut.chunks[i] = << <<>> >>

\* C10: the size lookup returns the preset of the requested key, 1200x630 for
\* standard and 1200x675 for wide, both dimensions positive; the theme lookup
\* returns the theme of the requested key.
C10_LookupFidelity ==
    /\ \A k \in SizeKeys :
          /\ OGP_SIZE_PRESETS[k].preset = k
          /\ OGP_SIZE_PRESETS[k].width > 0
          /\ OGP_SIZE_PRESETS[k].height > 0
    /\ config.selectedSize \in SizeKeys
    /\ config.selectedSize = "standard"
          => getOgpSize(config) = [width |-> 1200, height |-> 630]
    /\ config.selectedSize = "wide"
          => getOgpSize(config) = [width |-> 1200, height |-> 675]
    /\ config.gradientColor \in ThemeKeys
    /\ GRADIENT_PRESETS[config.gradientColor].preset = config.gradientColor

\* the wide size and the second theme are selected
C10_Witness == config.selectedSize = "wide" /\ config.gradientColor = "other"

-----------------------------------------------------------------------------
(* The fallbacks of the card.                                              *)

\* C11: whatever the configuration, the card of part_001 renders the
\* placeholder of an empty site name, author name, icon or title, the
\* placeholder title being segmented like any title, and renders a non-empty
\* field as it was entered.
C11_FallbacksThenAsEntered ==
    LET c == previewRef.content
    IN  component = "part_001" =>
        /\ c.siteName = IF config.siteName = "" THEN "saito-mei" ELSE config.siteName
        /\ c.authorName = IF config.authorName = "" THEN "chosha-mei" ELSE config.authorName
        /\ c.icon = IF config.authorIconUrl = "" THEN DefaultIcon ELSE config.authorIconUrl
        /\ DomText(c.title) = IF config.articleTitle = <<>> THEN TitlePlaceholder
                               ELSE config.articleTitle
        /\ config.articleTitle = <<>>
              => Segments(c.title) = Parse(TitlePlaceholder, budoux)

-----------------------------------------------------------------------------
(* The names of the delivered files.                                       *)

\* C12: a file is delivered under the name ogp-<t>.png where <t> is the clock
\* at the step that delivers it: the step that settles this export's
\* rasterization (the export is in flight before it, resolved after it) and
\* that takes the controller from Exporting back to Idle.
C12_NamedAtDelivery ==
    [][Len(files') > Len(files) =>
          LET f == files'[Len(files')]
          IN  /\ f.name = <<"ogp-", now', ".png">>
              /\ now' = now
              /\ f.id \in InFlight /\ isDownloading
              /\ \E d \in finished' \ finished : d.id = f.id /\ d.toPng = "resolved"
              /\ ~isDownloading']_vars

\* an export that was started at one clock value and delivered at another
C12_Witness ==
    \E i \in 1..Len(files) :
        /\ files[i].calledAt # files[i].name[2]
        /\ files[i].name = <<"ogp-", now, ".png">>

\* C13: any two distinct successful exports deliver files with different names.
C13_DistinctNames ==
    \A i, k \in 1..Len(files) : i # k => files[i].name # files[k].name

\* C13, amended: two distinct successful exports deliver files with
\* different names exactly when their deliveries read different clock values.
C13_DistinctNamesIffDistinctClock ==
    \A i, k \in 1..Len(files) :
        (i # k /\ files[i].id # files[k].id) =>
            (files[i].name # files[k].name <=> files[i].deliveredAt # files[k].deliveredAt)

\* two successful exports delivered at different clock values
C13_Witness ==
    \E i, k \in 1..Len(files) :
        /\ files[i].id # files[k].id
        /\ files[i].deliveredAt # files[k].deliveredAt
        /\ files[i].name # files[k].name

-----------------------------------------------------------------------------
(* Explicit line breaks of the title.                                      *)

LineBreaksOf(text) == {i \in 1..Len(text) : text[i] = NL}

\* C14, for the component of part_001 and a title that is not empty: the
\* rendered title has exactly one forced break per explicit line break of the
\* title, no segment holds a line break, and a soft break opportunity stands
\* only between two segments of one line.
C14_OneForcedBreakPerLineBreak ==
    (segOut.stage = "rendered" /\ component = "part_001" /\ segTitle # <<>>) =>
        LET dom == segOut.dom
        IN  /\ CountBr(dom) = Cardinality(LineBreaksOf(segTitle))
            /\ \A i \in 1..Len(Segments(dom)) : LineBreaksOf(Segments(dom)[i]) = {}
            /\ \A i \in 1..Len(dom) :
                  (dom[i].kind = "open" /\ dom[i].name = "wbr") =>
                      /\ 1 < i /\ i < Len(dom)
                      /\ dom[i - 1] = [kind |-> "close", name |-> "span"]
                      /\ dom[i + 1] = [kind |-> "open", name |-> "span"]

-----------------------------------------------------------------------------
(* The configuration.                                                      *)

OgpConfigFields ==
    {"siteName", "articleTitle", "authorName", "authorIconUrl", "selectedSize",
     "gradientColor"}

\* every field is there and holds a value of its type, the size and the
\* theme being keys of their catalogs
FullyPopulated(cfg) ==
    /\ DOMAIN cfg = OgpConfigFields
    /\ cfg.siteName \in STRING
    /\ cfg.articleTitle \in Seq(STRING)
    /\ cfg.authorName \in STRING
    /\ cfg.authorIconUrl \in STRING
    /\ cfg.selectedSize \in DOMAIN OGP_SIZE_PRESETS
    /\ cfg.gradientColor \in DOMAIN GRADIENT_PRESETS

\* C15: in every reachable state the configuration is fully populated, with
\* selectedSize one of standard, wide and the theme a key of the theme
\* catalog, and so is the configuration every pending onload closure holds.
C15_ConfigFullyPopulated ==
    /\ FullyPopulated(config)
    /\ \A r \in reads : FullyPopulated(r.config)
    /\ OGP_SIZE_PRESETS[config.selectedSize].preset = config.selectedSize
    /\ GRADIENT_PRESETS[config.gradientColor].preset = config.gradientColor

\* a configuration reached by a text edit, a size edit and an icon file load
C15_Witness ==
    /\ edits > 0
    /\ config.authorIconUrl \in DataUrls
    /\ config.selectedSize = "wide"
    /\ config.siteName = ""

\* C16: no form edit is lost: the completion of an icon file read (a step
\* that takes a read out of the reads in progress) changes authorIconUrl only,
\* so every other field keeps the value of the user's most recent edit.
C16_OnloadChangesIconOnly ==
    [][(reads' # reads /\ reads' \subseteq reads) =>
          \A f \in OgpConfigFields \ {"authorIconUrl"} : config'[f] = config[f]]_vars

-----------------------------------------------------------------------------
(* The busy flag.                                                          *)

====
